---- MODULE Spec2Model ----
(***************************************************************************)
(* Model of the terminal text editor: Editor (editor.rs), Screen           *)
(* (screen.rs) and the bounded steps of Coordinates (coords.rs).           *)
(* `frame` is what the last refresh_screen of the run loop queued for the  *)
(* terminal; only RenderSpec draws frames.                                 *)
(*                                                                         *)
(* A text line is a sequence of one-character strings; the document        *)
(* `rows` is a sequence of lines.  Row and column indices are 0-based as   *)
(* in the source, so line i of the source is rows[i + 1] here.             *)
(* A panic (unwrap on None, out-of-range String/Vec index) ends the        *)
(* process: the editor record keeps the fields as they were at the panic   *)
(* and `fault` becomes "panic"; die (exit code 1) makes it "exit", and      *)
(* exit (exit code 0) makes it "quit".                                     *)
(***************************************************************************)
EXTENDS Integers, Sequences, FiniteSets, TLC

\* ---- bounds of the explored state space ----
MaxLines == 3
MaxChars == 2
MaxWidth == 2
MaxHeight == 2
MaxTerm == 1
\* search alone: lines of a document, characters of a line, characters of a term
FindMaxLines == 2
FindMaxLen == 2
FindMaxTerm == 2
\* rendering alone: lines and characters of a document
RenderMaxLines == 2
RenderMaxChars == 2

\* the characters a key event or a file can bring
Chars == {"a", "b"}

\* u16::MAX
U16Max == 65535

\* the length of the greeting "My editor -- version 1"
GreetingLen == 22

\* the file name of a buffer that has none, and the paths a user can name
NewFile == "[New file]"

FileNames == {"f"}

VARIABLES cursor, rows, row_offset, col_offset, has_changed, width, height,
          fault, mode, search_term, findings, finding, lastOp, prev,
          file_name, frame

vars == <<cursor, rows, row_offset, col_offset, has_changed, width, height,
          fault, mode, search_term, findings, finding, lastOp, prev,
          file_name, frame>>

\* ---- arithmetic and sequence helpers ----
Min(a, b) == IF a <= b THEN a ELSE b

saturating_sub(a, b) == IF a >= b THEN a - b ELSE 0

saturating_add(a, b) == Min(a + b, U16Max)

\* Vec::insert / String::insert at 0-based index i (i <= Len(s))
InsertAt(s, i, v) == SubSeq(s, 1, i) \o <<v>> \o SubSeq(s, i + 1, Len(s))

\* Vec::remove / String::remove at 0-based index i (i < Len(s))
RemoveAt(s, i) == SubSeq(s, 1, i) \o SubSeq(s, i + 2, Len(s))

RECURSIVE Concat(_)
Concat(rs) == IF Len(rs) = 0 THEN <<>> ELSE Head(rs) \o Concat(Tail(rs))

TotalLen(rs) == Len(Concat(rs))

\* all lines of at most n characters
Lines(n) == UNION {[1..k -> Chars] : k \in 0..n}

\* the documents a file can hold within the bounds (str::lines of its content)
Docs == {d \in UNION {[1..k -> Lines(MaxChars)] : k \in 0..MaxLines} :
           TotalLen(d) <= MaxChars}

\* ---- the editor as a value ----
Ed == [cursor |-> cursor, rows |-> rows, row_offset |-> row_offset,
       col_offset |-> col_offset, has_changed |-> has_changed,
       width |-> width, height |-> height, fault |-> fault,
       file_name |-> file_name]

Coord(x, y) == [x |-> x, y |-> y]

Panic(e) == [e EXCEPT !.fault = "panic"]

\* u16 subtraction below zero: panics in a debug build, wraps in release
Overflow(e) == [e EXCEPT !.fault = "overflow"]

\* ---- Coordinates: bounded steps; <<>> is None, <<c>> is Some(c) ----
\* range is ..hi (exclusive upper bound, no lower bound)
try_bounded_up_by(c, n, hi) ==
  IF c.y + n <= U16Max /\ c.y + n < hi THEN <<Coord(c.x, c.y + n)>> ELSE <<>>

try_bounded_down_by(c, n, hi) ==
  IF c.y - n >= 0 /\ c.y - n < hi THEN <<Coord(c.x, c.y - n)>> ELSE <<>>

try_bounded_right_by(c, n, hi) ==
  IF c.x + n <= U16Max /\ c.x + n < hi THEN <<Coord(c.x + n, c.y)>> ELSE <<>>

try_bounded_left_by(c, n, hi) ==
  IF c.x - n >= 0 /\ c.x - n < hi THEN <<Coord(c.x - n, c.y)>> ELSE <<>>

\* ---- Screen: scroll mutators ----
scroll_up(e, by) == [e EXCEPT !.row_offset = saturating_sub(e.row_offset, by)]

scroll_down(e, by) == [e EXCEPT !.row_offset = saturating_add(e.row_offset, by)]

scroll_right(e, by) == [e EXCEPT !.col_offset = saturating_add(e.col_offset, by)]

scroll_left(e, by) == [e EXCEPT !.col_offset = saturating_sub(e.col_offset, by)]

reset_column_offset(e) == [e EXCEPT !.col_offset = 0]

reset_row_offset(e) == [e EXCEPT !.row_offset = 0]

\* ---- Editor: row lookup ----
\* rows.iter().nth(y) is Some
has_row(e, y) == y < Len(e.rows)

\* get_row(y) when has_row(e, y); the unwrap panics otherwise
get_row(e, y) == e.rows[y + 1]

\* <<>> when get_row panics (empty document), else <<(line length, clamped row)>>
cursor_end_of_line(e, y) ==
  LET true_y == Min(saturating_sub(Len(e.rows), 1), y)
  IN  IF has_row(e, true_y)
      THEN <<Coord(Len(get_row(e, true_y)), true_y)>>
      ELSE <<>>

\* the column-offset reset that ends the Up and Down branches
reset_if_past_eol(e) ==
  IF ~has_row(e, e.cursor.y) THEN Panic(e)
  ELSE IF e.cursor.x >= Len(get_row(e, e.cursor.y))
       THEN reset_column_offset(e)
       ELSE e

\* ---- Editor::move_cursor, one operator per key ----
NavOps == {"Up", "Down", "Left", "Right"}

move_up(e) ==
  LET c == try_bounded_up_by(e.cursor, 1, e.height)
  IN  IF Len(c) = 1
      THEN LET coord == c[1]
               eol == cursor_end_of_line(e, coord.y + e.row_offset)
           IN  IF Len(eol) = 0 THEN Panic(e)
               ELSE reset_if_past_eol(
                      [e EXCEPT !.cursor = Coord(Min(eol[1].x, coord.x), coord.y)])
      ELSE scroll_up(e, 1)

\* move_cursor Down scrolling with no test against the line count
move_down_mut(e) ==
  LET c == try_bounded_down_by(e.cursor, 1, e.height)
  IN  IF Len(c) = 1
      THEN LET coord == c[1]
               eol == cursor_end_of_line(e, coord.y + e.row_offset)
           IN  IF Len(e.rows) = 0
                  \/ saturating_add(e.cursor.y + e.row_offset, 1) = Len(e.rows)
               THEN e
               ELSE IF Len(eol) = 0 THEN Panic(e)
               ELSE reset_if_past_eol(
                      [e EXCEPT !.cursor =
                         Coord(Min(eol[1].x, coord.x),
                               Min(saturating_sub(Len(e.rows), 1), coord.y))])
      ELSE scroll_down(e, 1)

move_down(e) ==
  LET c == try_bounded_down_by(e.cursor, 1, e.height)
  IN  IF Len(c) = 1
      THEN LET coord == c[1]
               eol == cursor_end_of_line(e, coord.y + e.row_offset)
           IN  IF Len(e.rows) = 0
                  \/ saturating_add(e.cursor.y + e.row_offset, 1) = Len(e.rows)
               THEN e
               ELSE IF Len(eol) = 0 THEN Panic(e)
               ELSE reset_if_past_eol(
                      [e EXCEPT !.cursor =
                         Coord(Min(eol[1].x, coord.x),
                               Min(saturating_sub(Len(e.rows), 1), coord.y))])
      ELSE IF saturating_add(e.cursor.y + e.row_offset, 1) < Len(e.rows)
           THEN scroll_down(e, 1)
           ELSE e

\* move_cursor Left without the beginning-of-file test
move_left_mut(e) ==
  LET c == try_bounded_left_by(e.cursor, 1, e.width)
  IN  IF Len(c) = 1
      THEN LET coord == c[1]
               eol == cursor_end_of_line(e, coord.y + e.row_offset)
           IN  IF Len(eol) = 0 THEN Panic(e)
               ELSE [e EXCEPT !.cursor = Coord(Min(eol[1].x, coord.x), coord.y)]
      ELSE IF e.cursor = Coord(0, 0)
           THEN IF e.col_offset # 0
                THEN scroll_left(e, 1)
                ELSE LET prev_eol == cursor_end_of_line(
                           e, e.cursor.y + saturating_sub(e.row_offset, 1))
                     IN  IF Len(prev_eol) = 0 THEN Panic(e)
                         ELSE scroll_up([e EXCEPT !.cursor = Coord(prev_eol[1].x, 0)], 1)
           ELSE IF e.cursor.x = 0 /\ e.col_offset # 0
           THEN scroll_left(e, 1)
           ELSE IF e.cursor.x = 0 /\ e.col_offset = 0
           THEN LET prev_eol == cursor_end_of_line(
                      e, saturating_sub(e.cursor.y, 1) + e.row_offset)
                IN  IF Len(prev_eol) = 0 THEN Panic(e)
                    ELSE IF prev_eol[1].y < e.row_offset THEN Overflow(e)
                    ELSE LET x == prev_eol[1].x
                             y == prev_eol[1].y - e.row_offset
                         IN  IF x > e.width
                             THEN [scroll_right(e, x - e.width + 1)
                                     EXCEPT !.cursor = Coord(e.width - 1, y)]
                             ELSE [e EXCEPT !.cursor = Coord(x, y)]
           ELSE e

move_left(e) ==
  LET c == try_bounded_left_by(e.cursor, 1, e.width)
  IN  IF Len(c) = 1
      THEN LET coord == c[1]
               eol == cursor_end_of_line(e, coord.y + e.row_offset)
           IN  IF Len(eol) = 0 THEN Panic(e)
               ELSE [e EXCEPT !.cursor = Coord(Min(eol[1].x, coord.x), coord.y)]
      ELSE IF e.cursor = Coord(0, 0)
           THEN IF e.row_offset = 0 /\ e.col_offset = 0
                THEN e
                ELSE IF e.col_offset # 0
                THEN scroll_left(e, 1)
                ELSE LET prev_eol == cursor_end_of_line(
                           e, e.cursor.y + saturating_sub(e.row_offset, 1))
                     IN  IF Len(prev_eol) = 0 THEN Panic(e)
                         ELSE scroll_up([e EXCEPT !.cursor = Coord(prev_eol[1].x, 0)], 1)
           ELSE IF e.cursor.x = 0 /\ e.col_offset # 0
           THEN scroll_left(e, 1)
           ELSE IF e.cursor.x = 0 /\ e.col_offset = 0
           THEN LET prev_eol == cursor_end_of_line(
                      e, saturating_sub(e.cursor.y, 1) + e.row_offset)
                IN  IF Len(prev_eol) = 0 THEN Panic(e)
                    ELSE IF prev_eol[1].y < e.row_offset THEN Overflow(e)
                    ELSE LET x == prev_eol[1].x
                             y == prev_eol[1].y - e.row_offset
                         IN  IF x > e.width
                             THEN [scroll_right(e, x - e.width + 1)
                                     EXCEPT !.cursor = Coord(e.width - 1, y)]
                             ELSE [e EXCEPT !.cursor = Coord(x, y)]
           ELSE e

move_right(e) ==
  LET c == try_bounded_right_by(e.cursor, 1, e.width)
  IN  IF Len(c) = 1
      THEN LET coord == c[1]
               eol == cursor_end_of_line(e, coord.y + e.row_offset)
           IN  IF Len(e.rows) = 0 THEN e
               ELSE IF Len(eol) = 0 THEN Panic(e)
               ELSE IF coord.x > eol[1].x
               THEN IF coord.y + e.row_offset >= saturating_sub(Len(e.rows), 1)
                    THEN e
                    ELSE IF coord.y = e.height - 1
                    THEN [scroll_down(e, 1) EXCEPT !.cursor = Coord(0, coord.y)]
                    ELSE [e EXCEPT !.cursor = Coord(0, saturating_add(coord.y, 1))]
               ELSE [e EXCEPT !.cursor = Coord(Min(eol[1].x, coord.x), coord.y)]
      ELSE IF ~has_row(e, e.cursor.y) THEN Panic(e)
           ELSE IF e.cursor.x + e.col_offset < Len(get_row(e, e.cursor.y))
           THEN scroll_right(e, 1)
           ELSE [reset_column_offset(e) EXCEPT
                   !.cursor = Coord(0, saturating_add(e.cursor.y, 1))]

\* move_cursor marking the buffer as modified, as the edit handlers do
move_cursor_mut(e, code) ==
  CASE code = "Up" -> [move_up(e) EXCEPT !.has_changed = TRUE]
    [] code = "Down" -> [move_down(e) EXCEPT !.has_changed = TRUE]
    [] code = "Left" -> [move_left(e) EXCEPT !.has_changed = TRUE]
    [] code = "Right" -> [move_right(e) EXCEPT !.has_changed = TRUE]
    [] OTHER -> e

move_cursor(e, code) ==
  CASE code = "Up" -> move_up(e)
    [] code = "Down" -> move_down(e)
    [] code = "Left" -> move_left(e)
    [] code = "Right" -> move_right(e)
    [] OTHER -> e

\* ---- Editor: edit operations ----
abs_row(e) == e.cursor.y + e.row_offset

abs_col(e) == e.cursor.x + e.col_offset

insert_char(e, ch) ==
  LET e1 == [e EXCEPT !.has_changed = TRUE]
      current_row_index == abs_row(e)
      current_col_index == abs_col(e)
  IN  IF ~has_row(e1, current_row_index) THEN Panic(e1)
      ELSE IF current_col_index > Len(get_row(e1, current_row_index)) THEN Panic(e1)
      ELSE LET row == InsertAt(get_row(e1, current_row_index), current_col_index, ch)
               e2 == [e1 EXCEPT !.rows =
                        InsertAt(RemoveAt(e1.rows, current_row_index),
                                 current_row_index, row)]
           IN  move_cursor(e2, "Right")

\* insert_enter with the suffix taken one character too far to the right
insert_enter_mut(e) ==
  LET e1 == [e EXCEPT !.has_changed = TRUE]
      current_row_index == abs_row(e)
      current_col_index == abs_col(e)
  IN  IF ~has_row(e1, current_row_index) THEN Panic(e1)
      ELSE IF current_col_index > Len(get_row(e1, current_row_index)) THEN Panic(e1)
      ELSE LET full == get_row(e1, current_row_index)
               post_cursor_row == SubSeq(full, current_col_index + 2, Len(full))
               row == SubSeq(full, 1, current_col_index)
               e2 == [e1 EXCEPT !.rows =
                        InsertAt(InsertAt(RemoveAt(e1.rows, current_row_index),
                                          current_row_index, row),
                                 saturating_add(current_row_index, 1),
                                 post_cursor_row)]
               e3 == move_cursor(e2, "Down")
           IN  IF e3.fault # "none" THEN e3
               ELSE reset_column_offset([e3 EXCEPT !.cursor = Coord(0, e3.cursor.y)])

insert_enter(e) ==
  LET e1 == [e EXCEPT !.has_changed = TRUE]
      current_row_index == abs_row(e)
      current_col_index == abs_col(e)
  IN  IF ~has_row(e1, current_row_index) THEN Panic(e1)
      ELSE IF current_col_index > Len(get_row(e1, current_row_index)) THEN Panic(e1)
      ELSE LET full == get_row(e1, current_row_index)
               post_cursor_row == SubSeq(full, current_col_index + 1, Len(full))
               row == SubSeq(full, 1, current_col_index)
               e2 == [e1 EXCEPT !.rows =
                        InsertAt(InsertAt(RemoveAt(e1.rows, current_row_index),
                                          current_row_index, row),
                                 saturating_add(current_row_index, 1),
                                 post_cursor_row)]
               e3 == move_cursor(e2, "Down")
           IN  IF e3.fault # "none" THEN e3
               ELSE reset_column_offset([e3 EXCEPT !.cursor = Coord(0, e3.cursor.y)])

\* process_backspace joining the two lines in the wrong order
process_backspace_mut(e) ==
  LET e1 == [e EXCEPT !.has_changed = TRUE]
      current_row_index == abs_row(e)
      current_col_index == abs_col(e)
  IN  IF ~has_row(e1, current_row_index) THEN Panic(e1)
      ELSE LET row == get_row(e1, current_row_index)
               e2 == move_cursor(e1, "Left")
           IN  IF e2.fault # "none" THEN e2
               ELSE IF current_col_index = 0 /\ current_row_index = 0 THEN e2
               ELSE IF current_col_index = 0
               THEN LET prev_row ==
                          row \o get_row(e2, saturating_sub(current_row_index, 1))
                    IN  [e2 EXCEPT !.rows =
                           InsertAt(RemoveAt(RemoveAt(e2.rows, current_row_index),
                                             saturating_sub(current_row_index, 1)),
                                    saturating_sub(current_row_index, 1), prev_row)]
               ELSE IF saturating_sub(current_col_index, 1) >= Len(row) THEN Panic(e2)
               ELSE [e2 EXCEPT !.rows =
                       InsertAt(RemoveAt(e2.rows, current_row_index),
                                current_row_index,
                                RemoveAt(row, saturating_sub(current_col_index, 1)))]

process_backspace(e) ==
  LET e1 == [e EXCEPT !.has_changed = TRUE]
      current_row_index == abs_row(e)
      current_col_index == abs_col(e)
  IN  IF ~has_row(e1, current_row_index) THEN Panic(e1)
      ELSE LET row == get_row(e1, current_row_index)
               e2 == move_cursor(e1, "Left")
           IN  IF e2.fault # "none" THEN e2
               ELSE IF current_col_index = 0 /\ current_row_index = 0 THEN e2
               ELSE IF current_col_index = 0
               THEN LET prev_row ==
                          get_row(e2, saturating_sub(current_row_index, 1)) \o row
                    IN  [e2 EXCEPT !.rows =
                           InsertAt(RemoveAt(RemoveAt(e2.rows, current_row_index),
                                             saturating_sub(current_row_index, 1)),
                                    saturating_sub(current_row_index, 1), prev_row)]
               ELSE IF saturating_sub(current_col_index, 1) >= Len(row) THEN Panic(e2)
               ELSE [e2 EXCEPT !.rows =
                       InsertAt(RemoveAt(e2.rows, current_row_index),
                                current_row_index,
                                RemoveAt(row, saturating_sub(current_col_index, 1)))]

\* process_delete removing the character left of the cursor column
process_delete_mut(e) ==
  LET e1 == [e EXCEPT !.has_changed = TRUE]
      current_row_index == abs_row(e)
      current_col_index == abs_col(e)
  IN  IF ~has_row(e1, current_row_index) THEN Panic(e1)
      ELSE LET row == get_row(e1, current_row_index)
               eol == cursor_end_of_line(e1, current_row_index)
           IN  IF current_row_index = saturating_sub(Len(e1.rows), 1)
                  /\ current_col_index = eol[1].x
               THEN e1
               ELSE IF current_col_index = eol[1].x
               THEN LET next_row == get_row(e1, saturating_add(current_row_index, 1))
                    IN  [e1 EXCEPT !.rows =
                           InsertAt(RemoveAt(RemoveAt(e1.rows, current_row_index),
                                             current_row_index),
                                    current_row_index, row \o next_row)]
               ELSE IF current_col_index >= Len(row) THEN Panic(e1)
               ELSE [e1 EXCEPT !.rows =
                       InsertAt(RemoveAt(e1.rows, current_row_index),
                                current_row_index,
                                RemoveAt(row, saturating_sub(current_col_index, 1)))]

process_delete(e) ==
  LET e1 == [e EXCEPT !.has_changed = TRUE]
      current_row_index == abs_row(e)
      current_col_index == abs_col(e)
  IN  IF ~has_row(e1, current_row_index) THEN Panic(e1)
      ELSE LET row == get_row(e1, current_row_index)
               eol == cursor_end_of_line(e1, current_row_index)
           IN  IF current_row_index = saturating_sub(Len(e1.rows), 1)
                  /\ current_col_index = eol[1].x
               THEN e1
               ELSE IF current_col_index = eol[1].x
               THEN LET next_row == get_row(e1, saturating_add(current_row_index, 1))
                    IN  [e1 EXCEPT !.rows =
                           InsertAt(RemoveAt(RemoveAt(e1.rows, current_row_index),
                                             current_row_index),
                                    current_row_index, row \o next_row)]
               ELSE IF current_col_index >= Len(row) THEN Panic(e1)
               ELSE [e1 EXCEPT !.rows =
                       InsertAt(RemoveAt(e1.rows, current_row_index),
                                current_row_index,
                                RemoveAt(row, current_col_index))]

\* ---- Editor: save ----
\* save_file without the clearing of the dirty flag
save_file_mut(e, name, written) ==
  LET e1 == IF e.file_name = NewFile THEN [e EXCEPT !.file_name = name] ELSE e
  IN  IF written THEN e1 ELSE [e1 EXCEPT !.fault = "exit"]

\* save_file: an untitled buffer takes the name typed at the file-name
\* prompt; fs::write of rows.join("\n") then succeeds (written) or fails, and
\* a failed write ends the process through die
save_file(e, name, written) ==
  LET e1 == IF e.file_name = NewFile THEN [e EXCEPT !.file_name = name] ELSE e
  IN  IF written THEN [e1 EXCEPT !.has_changed = FALSE]
      ELSE [e1 EXCEPT !.fault = "exit"]

\* ---- Editor: quit ----
\* the keys that can follow the unsaved-changes warning: 'y', or anything else
\* (an event that is not a key counts as KeyCode::End)
QuitKeys == {"y", "other"}

\* Ctrl-Q exiting whatever the dirty flag and the next key are
process_quit_mut(e, key) == [e EXCEPT !.fault = "quit"]

\* the Ctrl-Q branch of process_key_press; exit is std::process::exit(0)
process_quit(e, key) ==
  IF e.has_changed
  THEN IF key = "y" THEN [e EXCEPT !.fault = "quit"] ELSE e
  ELSE [e EXCEPT !.fault = "quit"]

\* ---- Editor: search ----
\* str::find returning the rightmost occurrence
str_find_mut(row, term) ==
  LET hits == {i \in 0..(Len(row) - Len(term)) :
                 SubSeq(row, i + 1, i + Len(term)) = term}
  IN  IF hits = {} THEN <<>>
      ELSE <<CHOOSE i \in hits : \A j \in hits : i >= j>>

\* str::find: 0-based index of the leftmost occurrence, <<>> when there is none
str_find(row, term) ==
  LET hits == {i \in 0..(Len(row) - Len(term)) :
                 SubSeq(row, i + 1, i + Len(term)) = term}
  IN  IF hits = {} THEN <<>>
      ELSE <<CHOOSE i \in hits : \A j \in hits : i <= j>>

\* the fold of find: one coordinate per matching line, in line order
RECURSIVE find_fold(_, _, _)
find_fold(rs, term, y) ==
  IF y >= Len(rs) THEN <<>>
  ELSE LET m == str_find(rs[y + 1], term)
       IN  (IF Len(m) = 1 THEN <<Coord(m[1], y)>> ELSE <<>>)
             \o find_fold(rs, term, y + 1)

\* go_to_coordinate scrolling from the offsets the viewport already has
go_to_coordinate_mut(e, coord) ==
  LET x == coord.x
      y == coord.y
      offset_row == saturating_sub(y, e.height \div 2)
      true_y == y - offset_row
      offset_col == saturating_sub(x, e.width \div 2)
      true_x == x - offset_col
      e2 == scroll_right(scroll_down(e, offset_row), offset_col)
  IN  [e2 EXCEPT !.cursor = Coord(true_x, true_y)]

go_to_coordinate(e, coord) ==
  LET x == coord.x
      y == coord.y
      offset_row == saturating_sub(y, e.height \div 2)
      true_y == y - offset_row
      offset_col == saturating_sub(x, e.width \div 2)
      true_x == x - offset_col
      e1 == reset_column_offset(reset_row_offset(e))
      e2 == scroll_right(scroll_down(e1, offset_row), offset_col)
  IN  [e2 EXCEPT !.cursor = Coord(true_x, true_y)]

\* ---- Screen: rendering ----
\* the number of decimal digits of a u16
DigitLen(n) ==
  IF n < 10 THEN 1 ELSE IF n < 100 THEN 2 ELSE IF n < 1000 THEN 3
  ELSE IF n < 10000 THEN 4 ELSE 5

\* what draw_rows prints on one viewport row: a window of a line, or the
\* marker "~", on the greeting row followed by the greeting at column col
TextRow(t) == [kind |-> "text", text |-> t, col |-> 0]

TildeRow == [kind |-> "tilde", text |-> <<>>, col |-> 0]

GreetingRow(c) == [kind |-> "greeting", text |-> <<>>, col |-> c]

\* the u16 subtraction width - greeting_len below zero panics in a debug
\* build and wraps in a release build
Builds == {"debug", "release"}

\* draw_rows printing every line from its first character
draw_row_mut(e, y, is_new, build) ==
  IF y + e.row_offset < Len(e.rows)
  THEN LET row == get_row(e, y + e.row_offset)
       IN  <<TextRow(SubSeq(row, 1, Min(Len(row), e.width)))>>
  ELSE IF y = e.height \div 3 /\ is_new
       THEN IF e.width >= GreetingLen
            THEN <<GreetingRow((e.width - GreetingLen) \div 2)>>
            ELSE IF build = "debug" THEN <<>>
            ELSE <<GreetingRow(((e.width - GreetingLen) % (U16Max + 1)) \div 2)>>
       ELSE <<TildeRow>>

\* one iteration of the loop of draw_rows; <<>> when the subtraction panics
draw_row(e, y, is_new, build) ==
  IF y + e.row_offset < Len(e.rows)
  THEN LET row == get_row(e, y + e.row_offset)
           win_begin == Min(Len(row), e.col_offset)
           win_end == Min(Len(row), e.width + e.col_offset)
       IN  <<TextRow(SubSeq(row, win_begin + 1, win_end))>>
  ELSE IF y = e.height \div 3 /\ is_new
       THEN IF e.width >= GreetingLen
            THEN <<GreetingRow((e.width - GreetingLen) \div 2)>>
            ELSE IF build = "debug" THEN <<>>
            ELSE <<GreetingRow(((e.width - GreetingLen) % (U16Max + 1)) \div 2)>>
       ELSE <<TildeRow>>

\* draw_rows: the rows printed, and whether the loop panicked
draw_rows(e, is_new, build) ==
  LET printed == [y \in 1..e.height |-> draw_row(e, y - 1, is_new, build)]
  IN  IF \E y \in 1..e.height : Len(printed[y]) = 0
      THEN [fault |-> "panic", rows |-> <<>>]
      ELSE [fault |-> "none", rows |-> [y \in 1..e.height |-> printed[y][1]]]

NoStatus == [kind |-> "none", file |-> "", modifier |-> "", row |-> 0, col |-> 0]

StatusMsg == [kind |-> "msg", file |-> "", modifier |-> "", row |-> 0, col |-> 0]

\* draw_status_bar: <<>> when the location does not fit the width (the usize
\* subtraction panics, or wraps and fails the conversion to u16)
draw_status_bar(w, filename, modifier, row_num, col_num) ==
  IF w < DigitLen(row_num) + 1 + DigitLen(col_num) THEN <<>>
  ELSE <<[kind |-> "bar", file |-> filename, modifier |-> modifier,
          row |-> row_num, col |-> col_num]>>

NoFrame ==
  [drawn |-> FALSE, fault |-> "none", fresh |-> FALSE, rows |-> <<>>,
   status |-> NoStatus]

FaultFrame(fresh) ==
  [drawn |-> TRUE, fault |-> "panic", fresh |-> fresh, rows |-> <<>>,
   status |-> NoStatus]

\* refresh_screen showing the status bar without the modifier
refresh_screen_mut(e, fresh, build) ==
  LET is_new == ~e.has_changed /\ e.file_name = NewFile
      text == draw_rows(e, is_new, build)
      bar == draw_status_bar(e.width, e.file_name, "",
                             e.cursor.y + e.row_offset, e.cursor.x + e.col_offset)
  IN  IF text.fault # "none" THEN FaultFrame(fresh)
      ELSE IF fresh
      THEN [drawn |-> TRUE, fault |-> "none", fresh |-> fresh,
            rows |-> text.rows, status |-> StatusMsg]
      ELSE IF Len(bar) = 0 THEN FaultFrame(fresh)
      ELSE [drawn |-> TRUE, fault |-> "none", fresh |-> fresh,
            rows |-> text.rows, status |-> bar[1]]

\* refresh_screen; fresh: the status message is less than one second old
refresh_screen(e, fresh, build) ==
  LET is_new == ~e.has_changed /\ e.file_name = NewFile
      text == draw_rows(e, is_new, build)
      bar == draw_status_bar(e.width, e.file_name,
                             IF e.has_changed THEN "*" ELSE "",
                             e.cursor.y + e.row_offset, e.cursor.x + e.col_offset)
  IN  IF text.fault # "none" THEN FaultFrame(fresh)
      ELSE IF fresh
      THEN [drawn |-> TRUE, fault |-> "none", fresh |-> fresh,
            rows |-> text.rows, status |-> StatusMsg]
      ELSE IF Len(bar) = 0 THEN FaultFrame(fresh)
      ELSE [drawn |-> TRUE, fault |-> "none", fresh |-> fresh,
            rows |-> text.rows, status |-> bar[1]]

\* ---- the state machine ----
\* Editor::new on a terminal of w columns and h text rows
Editor_new(w, h) ==
  [cursor |-> Coord(0, 0), rows |-> << <<>> >>, row_offset |-> 0,
   col_offset |-> 0, has_changed |-> FALSE, width |-> w, height |-> h,
   fault |-> "none", file_name |-> NewFile]

\* Editor::open that drops the path of a file it could not read
open_mut(e, arg) ==
  CASE arg.kind = "New" -> e
    [] arg.kind = "Open" -> [e EXCEPT !.file_name = arg.file, !.rows = arg.lines]
    [] arg.kind = "OpenFailed" -> e

\* Editor::open: no argument, a file that was read, a file that was not
open(e, arg) ==
  CASE arg.kind = "New" -> e
    [] arg.kind = "Open" -> [e EXCEPT !.file_name = arg.file, !.rows = arg.lines]
    [] arg.kind = "OpenFailed" -> [e EXCEPT !.file_name = arg.file]

\* what the command line and the file system give to open
Args ==
  {[kind |-> "New"]}
    \cup [kind : {"Open"}, file : FileNames, lines : Docs]
    \cup [kind : {"OpenFailed"}, file : FileNames]

\* what the command line gives when it names a path
PathArgs == {arg \in Args : arg.kind # "New"}

\* Editor::new followed by Editor::open, on a terminal of w columns and h
\* text rows with w in ws and h in hs, and a command line in args
Start(ws, hs, args) ==
  \E w \in ws, h \in hs, arg \in args :
    LET e == open(Editor_new(w, h), arg)
    IN  /\ width = e.width
        /\ height = e.height
        /\ rows = e.rows
        /\ cursor = e.cursor
        /\ row_offset = e.row_offset
        /\ col_offset = e.col_offset
        /\ has_changed = e.has_changed
        /\ fault = e.fault
        /\ file_name = e.file_name
        /\ mode = "edit"
        /\ search_term = <<>>
        /\ findings = <<>>
        /\ finding = 0
        /\ lastOp = arg.kind
        /\ prev = e
        /\ frame = NoFrame

\* the editor started on a path.  The terminal is one column wide or MaxWidth
\* columns wide, and shows MaxHeight text rows.
Init == Start({1, MaxWidth}, {MaxHeight}, PathArgs)

\* the editor fields become those of e; prev remembers the editor before the key
Apply(op, e) ==
  /\ cursor' = e.cursor
  /\ rows' = e.rows
  /\ row_offset' = e.row_offset
  /\ col_offset' = e.col_offset
  /\ has_changed' = e.has_changed
  /\ fault' = e.fault
  /\ file_name' = e.file_name
  /\ lastOp' = op
  /\ prev' = Ed
  /\ UNCHANGED <<width, height, frame>>

Editing == mode = "edit" /\ fault = "none"

\* process_key_press in normal editing, one action per key
KeyUp ==
  /\ Editing
  /\ Apply("Up", move_cursor(Ed, "Up"))
  /\ UNCHANGED <<mode, search_term, findings, finding>>

KeyDown ==
  /\ Editing
  /\ Apply("Down", move_cursor(Ed, "Down"))
  /\ UNCHANGED <<mode, search_term, findings, finding>>

KeyLeft ==
  /\ Editing
  /\ Apply("Left", move_cursor(Ed, "Left"))
  /\ UNCHANGED <<mode, search_term, findings, finding>>

KeyRight ==
  /\ Editing
  /\ Apply("Right", move_cursor(Ed, "Right"))
  /\ UNCHANGED <<mode, search_term, findings, finding>>

KeyChar ==
  /\ Editing
  /\ TotalLen(rows) < MaxChars
  /\ \E ch \in Chars : Apply("Char", insert_char(Ed, ch))
  /\ UNCHANGED <<mode, search_term, findings, finding>>

KeyEnter ==
  /\ Editing
  /\ Len(rows) < MaxLines
  /\ Apply("Enter", insert_enter(Ed))
  /\ UNCHANGED <<mode, search_term, findings, finding>>

KeyBackspace ==
  /\ Editing
  /\ Apply("Backspace", process_backspace(Ed))
  /\ UNCHANGED <<mode, search_term, findings, finding>>

KeyDelete ==
  /\ Editing
  /\ Apply("Delete", process_delete(Ed))
  /\ UNCHANGED <<mode, search_term, findings, finding>>

\* Ctrl-S
KeyCtrlS ==
  /\ Editing
  /\ \E name \in FileNames, written \in BOOLEAN :
       Apply("Save", save_file(Ed, name, written))
  /\ UNCHANGED <<mode, search_term, findings, finding>>

\* Ctrl-Q: exit at once when nothing is unsaved; else the next key decides
KeyCtrlQ ==
  /\ Editing
  /\ \E key \in QuitKeys :
       Apply(IF ~has_changed THEN "Quit"
             ELSE IF key = "y" THEN "QuitY" ELSE "QuitOther",
             process_quit(Ed, key))
  /\ UNCHANGED <<mode, search_term, findings, finding>>

\* Ctrl-F: prompt_search starts with an empty term
KeyCtrlF ==
  /\ Editing
  /\ mode' = "prompt_search"
  /\ search_term' = <<>>
  /\ Apply("CtrlF", Ed)
  /\ UNCHANGED <<findings, finding>>

Prompting == mode = "prompt_search" /\ fault = "none"

PromptChar ==
  /\ Prompting
  /\ Len(search_term) < MaxTerm
  /\ \E ch \in Chars : search_term' = Append(search_term, ch)
  /\ Apply("PromptKey", Ed)
  /\ UNCHANGED <<mode, findings, finding>>

\* String::pop
PromptBackspace ==
  /\ Prompting
  /\ search_term' = SubSeq(search_term, 1, Len(search_term) - 1)
  /\ Apply("PromptKey", Ed)
  /\ UNCHANGED <<mode, findings, finding>>

PromptEsc ==
  /\ Prompting
  /\ mode' = "edit"
  /\ search_term' = <<>>
  /\ Apply("PromptEsc", Ed)
  /\ UNCHANGED <<findings, finding>>

\* Enter in the prompt: find builds the match list and goes to findings[0],
\* an index out of bounds when the list is empty; the term is not read again
PromptEnter ==
  /\ Prompting
  /\ LET fs == find_fold(rows, search_term, 0)
     IN  /\ findings' = fs
         /\ finding' = 0
         /\ IF Len(fs) = 0
            THEN Apply("PromptEnter", Panic(Ed))
            ELSE Apply("PromptEnter", go_to_coordinate(Ed, fs[1]))
  /\ mode' = "find"
  /\ search_term' = <<>>

Cycling == mode = "find" /\ fault = "none"

FindUp ==
  /\ Cycling
  /\ LET f == IF finding = 0 THEN saturating_sub(Len(findings), 1) ELSE finding - 1
     IN  /\ finding' = f
         /\ Apply("FindUp", go_to_coordinate(Ed, findings[f + 1]))
  /\ UNCHANGED <<mode, search_term, findings>>

\* Down in the match cycle stopping at the last match
FindDown_mut ==
  /\ Cycling
  /\ LET f == IF finding = saturating_sub(Len(findings), 1) THEN finding
              ELSE finding + 1
     IN  /\ finding' = f
         /\ Apply("FindDown", go_to_coordinate(Ed, findings[f + 1]))
  /\ UNCHANGED <<mode, search_term, findings>>

FindDown ==
  /\ Cycling
  /\ LET f == IF finding = saturating_sub(Len(findings), 1) THEN 0 ELSE finding + 1
     IN  /\ finding' = f
         /\ Apply("FindDown", go_to_coordinate(Ed, findings[f + 1]))
  /\ UNCHANGED <<mode, search_term, findings>>

\* the key that leaves the cycle handed on to process_key_press as a character
FindExit_mut ==
  /\ Cycling
  /\ mode' = "edit"
  /\ UNCHANGED search_term
  /\ findings' = <<>>
  /\ finding' = 0
  /\ \E ch \in Chars : Apply("FindExit", insert_char(Ed, ch))

\* any other key leaves the cycle and prompt_search returns
FindExit ==
  /\ Cycling
  /\ mode' = "edit"
  /\ UNCHANGED search_term
  /\ findings' = <<>>
  /\ finding' = 0
  /\ Apply("FindExit", Ed)

Next ==
  \/ KeyUp
  \/ KeyDown
  \/ KeyLeft
  \/ KeyRight
  \/ KeyChar
  \/ KeyEnter
  \/ KeyBackspace
  \/ KeyDelete
  \/ KeyCtrlS
  \/ KeyCtrlF
  \/ PromptChar
  \/ PromptBackspace
  \/ PromptEsc
  \/ PromptEnter
  \/ FindUp
  \/ FindDown
  \/ FindExit

Spec == Init /\ [][Next]_vars

\* navigation keys only
NavNext ==
  \/ KeyUp
  \/ KeyDown
  \/ KeyLeft
  \/ KeyRight

NavSpec == Init /\ [][NavNext]_vars

\* files and quitting: the editor started with or without a path; navigation,
\* edit, save and quit keys
FileInit == Start({1, MaxWidth}, {MaxHeight}, Args)

FileNext ==
  \/ KeyUp
  \/ KeyDown
  \/ KeyLeft
  \/ KeyRight
  \/ KeyChar
  \/ KeyEnter
  \/ KeyBackspace
  \/ KeyDelete
  \/ KeyCtrlS
  \/ KeyCtrlQ

FileSpec == FileInit /\ [][FileNext]_vars

\* search alone: a file of at most FindMaxLines lines of at most FindMaxLen
\* characters has been opened, Ctrl-F pressed and a term typed
FindDocs == UNION {[1..k -> Lines(FindMaxLen)] : k \in 0..FindMaxLines}

FindInit ==
  /\ width \in {1, MaxWidth}
  /\ height = MaxHeight
  /\ rows \in FindDocs
  /\ cursor = Coord(0, 0)
  /\ row_offset = 0
  /\ col_offset = 0
  /\ has_changed = FALSE
  /\ fault = "none"
  /\ mode = "prompt_search"
  /\ search_term \in Lines(FindMaxTerm)
  /\ findings = <<>>
  /\ finding = 0
  /\ file_name \in FileNames
  /\ frame = NoFrame
  /\ lastOp = "PromptKey"
  /\ prev = [cursor |-> Coord(0, 0), rows |-> rows, row_offset |-> 0,
             col_offset |-> 0, has_changed |-> FALSE, width |-> width,
             height |-> height, fault |-> "none", file_name |-> file_name]

FindNext ==
  \/ PromptEnter
  \/ FindUp
  \/ FindDown
  \/ FindExit

FindSpec == FindInit /\ [][FindNext]_vars

\* rendering: one iteration of the loop of Editor::run is refresh_screen,
\* then process_key_press; a panic while drawing ends the process
RenderDocs ==
  {d \in UNION {[1..k -> Lines(RenderMaxChars)] : k \in 0..RenderMaxLines} :
     TotalLen(d) <= RenderMaxChars}

RenderArgs ==
  {[kind |-> "New"]} \cup [kind : {"Open"}, file : FileNames, lines : RenderDocs]

\* terminals: too narrow for the status bar, wide enough for it, narrower
\* than the greeting, wider than it; three text rows, and for the greeting
\* also a single one
RenderWidths == {1, 3}

GreetingWidths == {GreetingLen - 1, GreetingLen + 2}

RenderHeights == {3}

GreetingHeights == {1, 3}

RenderInit ==
  \/ Start(RenderWidths, RenderHeights, RenderArgs)
  \/ Start(GreetingWidths, GreetingHeights, {[kind |-> "New"]})

\* the frames refresh_screen may draw of the editor as it is
Frames ==
  {refresh_screen(Ed, fresh, build) : fresh \in BOOLEAN, build \in Builds}

\* one iteration: the frame f is drawn, then the key gives the editor e
Run(f, op, e) ==
  \E e1 \in {IF f.fault = "none" THEN e ELSE Panic(Ed)} :
    /\ frame' = f
    /\ cursor' = e1.cursor
    /\ rows' = e1.rows
    /\ row_offset' = e1.row_offset
    /\ col_offset' = e1.col_offset
    /\ has_changed' = e1.has_changed
    /\ fault' = e1.fault
    /\ file_name' = e1.file_name
    /\ lastOp' = IF f.fault = "none" THEN op ELSE "Refresh"
    /\ prev' = Ed
    /\ UNCHANGED <<width, height, mode, search_term, findings, finding>>

RunNav ==
  /\ Editing
  /\ \E f \in Frames :
       \E code \in NavOps : Run(f, code, move_cursor(Ed, code))

RunChar ==
  /\ Editing
  /\ TotalLen(rows) < RenderMaxChars
  /\ \E f \in Frames :
       \E ch \in Chars : Run(f, "Char", insert_char(Ed, ch))

RunSave ==
  /\ Editing
  /\ \E f \in Frames :
       \E name \in FileNames, written \in BOOLEAN :
         Run(f, "Save", save_file(Ed, name, written))

RenderNext ==
  \/ RunNav
  \/ RunChar
  \/ RunSave

RenderSpec == RenderInit /\ [][RenderNext]_vars

\* ---- sanity of the model ----
TypeOK ==
  /\ cursor.x \in 0..U16Max /\ cursor.y \in 0..U16Max
  /\ row_offset \in 0..U16Max /\ col_offset \in 0..U16Max
  /\ has_changed \in BOOLEAN
  /\ fault \in {"none", "panic", "overflow", "exit", "quit"}
  /\ mode \in {"edit", "prompt_search", "find"}
  /\ Len(rows) <= MaxLines /\ TotalLen(rows) <= MaxChars

\* the u16 subtraction of the Left branch never goes below zero
NoOverflow == fault # "overflow"

\* ---- properties ----

\* the absolute position of e names a line of the document and a column of it
InDocument(e) ==
  /\ abs_row(e) < Len(e.rows)
  /\ abs_col(e) <= Len(e.rows[abs_row(e) + 1])

\* C1: under navigation keys alone, on a document of at least one line, the
\* absolute row stays in [0, line_count - 1] and the absolute column in
\* [0, length of that line]
C1_NavStaysInDocument ==
  (Len(rows) >= 1 /\ fault = "none") => InDocument(Ed)

\* C2: the cursor is inside the viewport in every reachable state
C2_CursorInViewport ==
  fault = "none" => (cursor.x < width /\ cursor.y < height)

\* C3: the document always has at least one line
C3_AtLeastOneLine == Len(rows) >= 1

\* C4: a navigation key never faults (on a document of at least one line)
C4_NavigationNeverFails ==
  (lastOp \in NavOps /\ Len(rows) >= 1) => fault = "none"

\* C5: whenever an edit key can arrive, the absolute row is < line_count and
\* the absolute column is <= that line's length (documents of >= 1 line)
C5_EditIndicesInRange ==
  (Editing /\ Len(rows) >= 1) => InDocument(Ed)

\* C6: a character insert at a position of the document, immediately followed
\* by Backspace, gives back the prior lines and the prior absolute position
C6_InsertBackspaceRoundTrip ==
  [][(lastOp = "Char" /\ lastOp' = "Backspace" /\ InDocument(prev))
       => /\ fault' = "none"
          /\ rows' = prev.rows
          /\ cursor'.x + col_offset' = abs_col(prev)
          /\ cursor'.y + row_offset' = abs_row(prev)]_vars

\* C7: a line break at a position of the document, immediately followed by
\* Backspace, gives back the line list from before the line break
C7_EnterBackspaceRoundTrip ==
  [][(lastOp = "Enter" /\ lastOp' = "Backspace" /\ InDocument(prev))
       => (fault' = "none" /\ rows' = prev.rows)]_vars

\* the lines of new are those of old with lines r and r + 1 (0-based) joined
MergedAt(old, new, r) ==
  /\ Len(new) = Len(old) - 1
  /\ new[r + 1] = old[r + 1] \o old[r + 2]
  /\ \A i \in 1..Len(old) :
       /\ i < r + 1 => new[i] = old[i]
       /\ i > r + 2 => new[i - 1] = old[i]

\* C8: a line break, a Backspace at absolute column 0 of a row > 0 and a
\* Delete-forward at the end of a non-last line keep the concatenation of all
\* lines; a completed one changes the line count by +1, -1, -1 and leaves the
\* lines not involved as they were, in order
C8_SplitMergePreserveContent ==
  LET old == prev.rows
      r == abs_row(prev)
      c == abs_col(prev)
  IN  /\ lastOp = "Enter" =>
           /\ Concat(rows) = Concat(old)
           /\ fault = "none" => MergedAt(rows, old, r)
      /\ (lastOp = "Backspace" /\ c = 0 /\ r > 0) =>
           /\ Concat(rows) = Concat(old)
           /\ fault = "none" => MergedAt(old, rows, r - 1)
      /\ (lastOp = "Delete" /\ r + 1 < Len(old) /\ c = Len(old[r + 1])) =>
           /\ Concat(rows) = Concat(old)
           /\ fault = "none" => MergedAt(old, rows, r)

\* a Backspace has joined two non-empty lines
C8_Witness ==
  /\ lastOp = "Backspace" /\ fault = "none"
  /\ abs_col(prev) = 0 /\ abs_row(prev) > 0
  /\ Len(rows) = Len(prev.rows) - 1
  /\ Len(prev.rows[abs_row(prev)]) > 0
  /\ Len(prev.rows[abs_row(prev) + 1]) > 0

\* C9: Delete-forward at a position (row, col) of the document: nothing
\* changes at the end of the last row; at the end of another row the next
\* line is joined onto it; otherwise exactly the character at col goes.
\* Cursor and both offsets stay as they were.
C9_DeleteForward ==
  (lastOp = "Delete" /\ InDocument(prev)) =>
    LET old == prev.rows
        r == abs_row(prev)
        c == abs_col(prev)
        line == old[r + 1]
    IN  /\ fault = "none"
        /\ cursor = prev.cursor
        /\ row_offset = prev.row_offset
        /\ col_offset = prev.col_offset
        /\ IF c = Len(line) /\ r = Len(old) - 1
           THEN rows = old
           ELSE IF c = Len(line)
           THEN rows = SubSeq(old, 1, r) \o <<line \o old[r + 2]>>
                         \o SubSeq(old, r + 3, Len(old))
           ELSE rows = [old EXCEPT ![r + 1] =
                          SubSeq(line, 1, c) \o SubSeq(line, c + 2, Len(line))]

\* Delete-forward has removed the second character of a two-character line
C9_Witness ==
  /\ lastOp = "Delete" /\ InDocument(prev) /\ fault = "none"
  /\ abs_col(prev) = 1
  /\ Len(prev.rows[abs_row(prev) + 1]) = 2
  /\ Len(rows[abs_row(prev) + 1]) = 1

\* C10: Backspace at absolute (0,0) and Delete-forward at the end of the last
\* row leave the dirty flag at its previous value
C10_NoOpKeepsDirtyFlag ==
  /\ (lastOp = "Backspace" /\ abs_col(prev) = 0 /\ abs_row(prev) = 0
        /\ Len(prev.rows) >= 1)
       => has_changed = prev.has_changed
  /\ (lastOp = "Delete" /\ InDocument(prev)
        /\ abs_row(prev) = Len(prev.rows) - 1
        /\ abs_col(prev) = Len(prev.rows[abs_row(prev) + 1]))
       => has_changed = prev.has_changed

SearchOps == {"CtrlF", "PromptKey", "PromptEsc", "PromptEnter",
              "FindUp", "FindDown", "FindExit"}

\* C11: the dirty flag is true after an insert character, an insert line
\* break and a Backspace or Delete-forward that changed the lines; navigation
\* and search keys leave it as it was; it is false after a save whose write
\* succeeded
C11_DirtyFlag ==
  /\ lastOp \in {"Char", "Enter"} => has_changed
  /\ (lastOp \in {"Backspace", "Delete"} /\ rows # prev.rows) => has_changed
  /\ lastOp \in (NavOps \cup SearchOps) => has_changed = prev.has_changed
  /\ (lastOp = "Save" /\ fault = "none") => ~has_changed

\* a save has cleared the dirty flag of an edited document
C11_Witness ==
  /\ lastOp = "Save" /\ fault = "none"
  /\ prev.has_changed /\ ~has_changed
  /\ Len(rows) >= 2

\* C12: insert character at a position (row, col) of the document: line row
\* becomes its first col characters, the character, and the rest; the other
\* lines and the line count are unchanged; the absolute cursor position
\* becomes (col + 1, row); the dirty flag is true
C12_InsertChar ==
  (lastOp = "Char" /\ InDocument(prev)) =>
    LET old == prev.rows
        r == abs_row(prev)
        c == abs_col(prev)
        line == old[r + 1]
    IN  /\ fault = "none"
        /\ has_changed
        /\ \E ch \in Chars : rows = [old EXCEPT ![r + 1] = InsertAt(line, c, ch)]
        /\ abs_col(Ed) = c + 1
        /\ abs_row(Ed) = r

\* C13: insert line break at a position (row, col) of the document: line row
\* holds the first col characters, line row + 1 the rest, the absolute cursor
\* position is (0, row + 1) and col_offset is 0
C13_InsertEnter ==
  (lastOp = "Enter" /\ InDocument(prev)) =>
    LET old == prev.rows
        r == abs_row(prev)
        c == abs_col(prev)
        line == old[r + 1]
    IN  /\ fault = "none"
        /\ Len(rows) = Len(old) + 1
        /\ rows[r + 1] = SubSeq(line, 1, c)
        /\ rows[r + 2] = SubSeq(line, c + 1, Len(line))
        /\ abs_col(Ed) = 0
        /\ abs_row(Ed) = r + 1
        /\ col_offset = 0

\* C14: Backspace at absolute column 0 of a row r > 0 of the document: line
\* r - 1 becomes old line r - 1 followed by old line r, old line r is removed,
\* and the absolute cursor position is (L, r - 1), L the length of line r - 1
\* before the merge
C14_BackspaceMerge ==
  (lastOp = "Backspace" /\ InDocument(prev)
     /\ abs_col(prev) = 0 /\ abs_row(prev) > 0) =>
    LET old == prev.rows
        r == abs_row(prev)
    IN  /\ fault = "none"
        /\ rows = SubSeq(old, 1, r - 1) \o <<old[r] \o old[r + 1]>>
                    \o SubSeq(old, r + 2, Len(old))
        /\ abs_col(Ed) = Len(old[r])
        /\ abs_row(Ed) = r - 1

\* a Backspace in the top viewport row of a scrolled viewport has joined the
\* line onto a non-empty previous line
C14_Witness ==
  /\ lastOp = "Backspace" /\ fault = "none" /\ InDocument(prev)
  /\ abs_col(prev) = 0 /\ prev.cursor.y = 0 /\ prev.row_offset > 0
  /\ Len(prev.rows[abs_row(prev)]) > 0
  /\ abs_col(Ed) = Len(prev.rows[abs_row(prev)])
  /\ Len(rows) = Len(prev.rows) - 1

\* C15: Right at the end-of-line column of a row r that is not the last one
\* moves the cursor to absolute position (0, r + 1)
C15_RightWrapsToNextLine ==
  (lastOp = "Right" /\ InDocument(prev)
     /\ abs_col(prev) = Len(prev.rows[abs_row(prev) + 1])
     /\ abs_row(prev) < Len(prev.rows) - 1) =>
    /\ fault = "none"
    /\ abs_col(Ed) = 0
    /\ abs_row(Ed) = abs_row(prev) + 1

\* C16: Right at the end of the last row leaves cursor, row_offset and
\* col_offset unchanged, for every viewport width
C16_RightAtEndOfFile ==
  (lastOp = "Right" /\ InDocument(prev)
     /\ abs_row(prev) = Len(prev.rows) - 1
     /\ abs_col(prev) = Len(prev.rows[abs_row(prev) + 1])) =>
    /\ fault = "none"
    /\ cursor = prev.cursor
    /\ row_offset = prev.row_offset
    /\ col_offset = prev.col_offset

\* C17: Left with cursor (0,0), row_offset 0 and col_offset 0 leaves cursor,
\* both offsets, the document and the dirty flag unchanged; the state after
\* it is the state before it, so this is so for every repetition
C17_LeftAtOrigin ==
  (lastOp = "Left" /\ prev.cursor = Coord(0, 0)
     /\ prev.row_offset = 0 /\ prev.col_offset = 0) => Ed = prev

\* Left at the origin of an edited document whose first line is not empty
C17_Witness ==
  /\ lastOp = "Left" /\ prev.cursor = Coord(0, 0)
  /\ prev.row_offset = 0 /\ prev.col_offset = 0
  /\ has_changed /\ Len(rows) >= 2 /\ Len(rows[1]) > 0
  /\ cursor = Coord(0, 0)

\* C18: Down from an absolute row ay of the document: at the last row cursor
\* and offsets are unchanged; otherwise the absolute row becomes ay + 1; the
\* resulting absolute row never exceeds line_count - 1
C18_Down ==
  (lastOp = "Down" /\ has_row(prev, abs_row(prev))) =>
    /\ fault = "none"
    /\ IF abs_row(prev) = Len(prev.rows) - 1
       THEN /\ cursor = prev.cursor
            /\ row_offset = prev.row_offset
            /\ col_offset = prev.col_offset
       ELSE abs_row(Ed) = abs_row(prev) + 1
    /\ abs_row(Ed) <= Len(rows) - 1

\* C19: Up from a row of the document: with cursor.y > 0 the viewport row
\* becomes cursor.y - 1, x becomes min(length of the line at the new absolute
\* row, x) and row_offset is unchanged; with cursor.y = 0 the cursor stays
\* and row_offset decreases by 1, saturating at 0
C19_Up ==
  (lastOp = "Up" /\ has_row(prev, abs_row(prev))) =>
    /\ fault = "none"
    /\ IF prev.cursor.y > 0
       THEN /\ cursor.y = prev.cursor.y - 1
            /\ cursor.x = Min(Len(rows[abs_row(prev)]), prev.cursor.x)
            /\ row_offset = prev.row_offset
       ELSE /\ cursor = prev.cursor
            /\ row_offset = saturating_sub(prev.row_offset, 1)

\* term occurs in row at 0-based index i
OccursAt(row, term, i) ==
  /\ i + Len(term) <= Len(row)
  /\ SubSeq(row, i + 1, i + Len(term)) = term

\* fs is the match list of term in rs: coordinates of lines that contain the
\* term, at the leftmost occurrence, one per such line, by increasing line
IsFindResult(fs, rs, term) ==
  /\ \A k \in 1..Len(fs) :
       /\ fs[k].y \in 0..(Len(rs) - 1)
       /\ OccursAt(rs[fs[k].y + 1], term, fs[k].x)
       /\ \A j \in 0..(fs[k].x - 1) : ~OccursAt(rs[fs[k].y + 1], term, j)
  /\ \A k \in 1..(Len(fs) - 1) : fs[k].y < fs[k + 1].y
  /\ \A y \in 0..(Len(rs) - 1) :
       (\E i \in 0..Len(rs[y + 1]) : OccursAt(rs[y + 1], term, i))
         => \E k \in 1..Len(fs) : fs[k].y = y

\* C20: the match list built when Enter commits the search term holds exactly
\* one coordinate per line that contains the term, (index of the leftmost
\* occurrence, line index), ordered by increasing line index
C20_FindResult ==
  [][(mode = "prompt_search" /\ mode' = "find")
       => IsFindResult(findings', rows, search_term)]_vars

\* a search has found its term in two lines, in the first not at column 0
C20_Witness ==
  /\ lastOp = "PromptEnter" /\ mode = "find"
  /\ Len(findings) = 2
  /\ findings[1] = Coord(1, 0)
  /\ findings[2] = Coord(0, 1)

\* C21: in the match cycle the index starts at 0 and stays in [0, len - 1];
\* Down maps index i to (i + 1) mod len and Up maps i to (i - 1) mod len
C21_MatchCycle ==
  /\ [](Cycling => finding \in 0..(Len(findings) - 1))
  /\ []((lastOp = "PromptEnter" /\ fault = "none") => finding = 0)
  /\ [][(Cycling /\ lastOp' = "FindDown")
          => finding' = (finding + 1) % Len(findings)]_vars
  /\ [][(Cycling /\ lastOp' = "FindUp")
          => finding' = (finding + Len(findings) - 1) % Len(findings)]_vars

\* Down from the last of two matches has wrapped to the first
C21_Witness ==
  /\ lastOp = "FindDown" /\ fault = "none"
  /\ Len(findings) = 2 /\ finding = 0
  /\ abs_row(prev) = findings[2].y /\ abs_row(Ed) = findings[1].y
  /\ findings[1].y # findings[2].y

Max0(n) == IF n >= 0 THEN n ELSE 0

CycleOps == {"PromptEnter", "FindUp", "FindDown"}

\* C22: after the search cycle goes to a match (mx, my): row_offset =
\* max(0, my - height/2), col_offset = max(0, mx - width/2), the absolute
\* cursor position is (mx, my), and the cursor is inside the viewport
C22_GoToMatch ==
  (lastOp \in CycleOps /\ fault = "none") =>
    LET m == findings[finding + 1]
    IN  /\ row_offset = Max0(m.y - height \div 2)
        /\ col_offset = Max0(m.x - width \div 2)
        /\ abs_col(Ed) = m.x /\ abs_row(Ed) = m.y
        /\ cursor.x < width /\ cursor.y < height

\* the cycle has gone to a match that needed both offsets
C22_Witness ==
  /\ lastOp \in CycleOps /\ fault = "none"
  /\ row_offset > 0 /\ col_offset > 0
  /\ abs_col(Ed) = findings[finding + 1].x
  /\ abs_row(Ed) = findings[finding + 1].y

\* C23: committing a search whose term occurs in no line raises no fault and
\* leaves the editor as it was; the cycle is not entered with an empty list
C23_EmptyMatchListRejected ==
  (lastOp = "PromptEnter" /\ Len(findings) = 0) =>
    (fault = "none" /\ Ed = prev)

QuitOps == {"Quit", "QuitY", "QuitOther"}

\* C24: Ctrl-Q exits with code 0 at once when the dirty flag is false; when
\* it is true the process exits only if the next key is 'y', and any other
\* next key returns to editing with nothing changed; there is no exit with
\* code 0 other than these
C24_QuitOrdering ==
  /\ (lastOp \in QuitOps /\ ~prev.has_changed) => fault = "quit"
  /\ (lastOp = "QuitY" /\ prev.has_changed) => fault = "quit"
  /\ (lastOp = "QuitOther" /\ prev.has_changed) => (fault = "none" /\ Ed = prev)
  /\ fault = "quit" => lastOp \in QuitOps
  /\ (fault = "quit" /\ prev.has_changed) => lastOp = "QuitY"

\* a key other than 'y' has answered the warning and editing goes on
C24_Witness ==
  /\ lastOp = "QuitOther" /\ fault = "none"
  /\ has_changed /\ Ed = prev
  /\ Len(rows) >= 2

C26_RowOffsetBound == row_offset <= Max0(Len(rows) - 1)

\* a merge has shrunk the document while the viewport shows its last line only
C26_Witness ==
  /\ lastOp \in {"Backspace", "Delete"} /\ fault = "none"
  /\ Len(rows) < Len(prev.rows)
  /\ row_offset > 0 /\ row_offset = Len(rows) - 1

\* C27: Left at absolute column 0 of a row r > 0 of the document: the
\* absolute cursor position becomes (length of line r - 1, r - 1), and when
\* that length is at least the viewport width, cursor.x <= width - 1
C27_LeftWrapsToPreviousLine ==
  (lastOp = "Left" /\ InDocument(prev)
     /\ abs_col(prev) = 0 /\ abs_row(prev) > 0) =>
    LET L == Len(prev.rows[abs_row(prev)])
    IN  /\ fault = "none"
        /\ abs_col(Ed) = L
        /\ abs_row(Ed) = abs_row(prev) - 1
        /\ L >= width => cursor.x <= width - 1

\* a frame that refresh_screen has drawn to the end, of the editor prev
Rendered == frame.drawn /\ frame.fault = "none"

\* C28: in a rendered frame every viewport row r in [0, height) with
\* r + row_offset < line_count shows the characters of line r + row_offset
\* from min(len, col_offset) to min(len, col_offset + width), at most width of
\* them; every other row shows the marker "~" and no text of the document
C28_RenderWindow ==
  Rendered =>
    /\ Len(frame.rows) = prev.height
    /\ \A r \in 0..(prev.height - 1) :
         IF r + prev.row_offset < Len(prev.rows)
         THEN LET line == prev.rows[r + prev.row_offset + 1]
                  from == Min(Len(line), prev.col_offset)
                  to == Min(Len(line), prev.col_offset + prev.width)
              IN  /\ frame.rows[r + 1].kind = "text"
                  /\ frame.rows[r + 1].text = SubSeq(line, from + 1, to)
                  /\ Len(frame.rows[r + 1].text) <= prev.width
         ELSE /\ frame.rows[r + 1].kind \in {"tilde", "greeting"}
              /\ frame.rows[r + 1].text = <<>>

\* a frame of a viewport scrolled to the right: a row shows the tail of a
\* line, not its first character, and a row below the document shows "~"
C28_Witness ==
  /\ Rendered
  /\ prev.col_offset > 0
  /\ \E r \in 1..prev.height :
       /\ frame.rows[r].kind = "text"
       /\ Len(frame.rows[r].text) > 0
       /\ frame.rows[r].text # SubSeq(prev.rows[r + prev.row_offset], 1,
                                      Len(frame.rows[r].text))
  /\ \E r \in 1..prev.height : frame.rows[r].kind = "tilde"

\* C29: in a rendered frame the row below the text shows the status message
\* exactly when it is less than one second old, and otherwise the status bar
\* with the file name, the modifier "*" exactly when the dirty flag is set, and
\* the position (cursor.y + row_offset):(cursor.x + col_offset)
C29_StatusRow ==
  Rendered =>
    /\ frame.status.kind \in {"msg", "bar"}
    /\ frame.status.kind = "msg" <=> frame.fresh
    /\ frame.status.kind = "bar" =>
         /\ frame.status.file = prev.file_name
         /\ frame.status.modifier = "*" <=> prev.has_changed
         /\ frame.status.modifier \in {"*", ""}
         /\ frame.status.row = prev.cursor.y + prev.row_offset
         /\ frame.status.col = prev.cursor.x + prev.col_offset

\* a frame with the status bar of a modified buffer, the cursor off column 0
C29_Witness ==
  /\ Rendered
  /\ ~frame.fresh
  /\ frame.status.kind = "bar"
  /\ frame.status.modifier = "*"
  /\ frame.status.col > 0
  /\ prev.has_changed

\* C30: every frame of an untitled, unmodified buffer is drawn to the end and
\* has the greeting on viewport row height / 3, starting at column
\* (width - greeting length) / 2, a column in [0, width)
C30_GreetingCentered ==
  (frame.drawn /\ ~prev.has_changed /\ prev.file_name = NewFile) =>
    /\ frame.fault = "none"
    /\ LET shown == frame.rows[prev.height \div 3 + 1]
       IN  /\ shown.kind = "greeting"
           /\ shown.col = (prev.width - GreetingLen) \div 2
           /\ shown.col >= 0
           /\ shown.col < prev.width

\* C31: Up, Down, Left and Right change no line, not the line count, not the
\* dirty flag, not the file name and not the size of the viewport; what they
\* change is among the cursor, row_offset and col_offset
C31_NavigationReadOnly ==
  lastOp \in NavOps =>
    /\ rows = prev.rows
    /\ has_changed = prev.has_changed
    /\ file_name = prev.file_name
    /\ width = prev.width /\ height = prev.height
    /\ fault \in {"none", "panic"}

\* a navigation key has scrolled the viewport of a modified, untitled buffer
C31_Witness ==
  /\ lastOp \in NavOps /\ fault = "none"
  /\ has_changed /\ file_name = NewFile
  /\ Len(rows) >= 2
  /\ row_offset # prev.row_offset
  /\ cursor # prev.cursor

\* C32: no key from Ctrl-F until the return to normal editing changes the
\* lines or the dirty flag; the keys of the prompt, Escape among them, leave
\* the cursor and the offsets as they were; the key that leaves the match cycle
\* is not applied to the document and does not move the cursor
C32_SearchNeverEdits ==
  /\ (mode # "edit" \/ lastOp \in SearchOps) =>
       /\ lastOp \in SearchOps
       /\ rows = prev.rows
       /\ has_changed = prev.has_changed
       /\ file_name = prev.file_name
  /\ lastOp \in {"CtrlF", "PromptKey", "PromptEsc", "FindExit"} =>
       /\ Ed = prev
       /\ fault = "none"
  /\ lastOp \in {"PromptEsc", "FindExit"} => mode = "edit"

\* a key has left the match cycle of a modified buffer, the cursor on a match
\* away from the origin
C32_Witness ==
  /\ lastOp = "FindExit" /\ mode = "edit" /\ fault = "none"
  /\ has_changed
  /\ Ed = prev
  /\ abs_row(Ed) > 0 /\ abs_col(Ed) > 0

====
